---- MODULE Spec2Model ----
(***************************************************************************)
(* A model of the in-memory search server (cpp-search-server): the dual   *)
(* posting index of class SearchServer, its add / remove / search          *)
(* operations in their sequential and parallel execution-policy variants, *)
(* the RequestQueue that wraps its searches, RemoveDuplicates and          *)
(* ProcessQueries.                                                         *)
(*                                                                         *)
(* Strings are sequences of one-character strings; std::map is a function *)
(* with a finite domain, iterated in key order; doubles are fixed-point   *)
(* integers (term frequencies in units of 1/TF_UNIT, logarithms in units  *)
(* of 1e-6).                                                               *)
(***************************************************************************)
EXTENDS Integers, Sequences, FiniteSets, TLC

\* ------------------------------------------------------------------ bounds
MaxDocumentId == 1      \* document ids of Spec range over -1..MaxDocumentId
MaxDictionary == 3      \* cap on the length of the append-only word storage
MaxSearchDocumentId == 6    \* SpecSearch starts with documents 0..MaxSearchDocumentId
MaxRemoveId == 1        \* SpecSearch removes documents 0..MaxRemoveId
MaxRequests == 1500     \* SpecRequests makes at most MaxRequests requests that return
SwitchEvery == 600      \* and changes the request after every SwitchEvery of them only
MaxDuplicateId == 2     \* SpecDuplicates adds documents 0..MaxDuplicateId

\* ------------------------------------------------------------- characters
Chars == {"a", "b", "c", "i", "n", " ", "-", "\t"}

\* the character code of c (ASCII)
CharCode(c) ==
    CASE c = "\t" -> 9
      [] c = " "  -> 32
      [] c = "-"  -> 45
      [] c = "a"  -> 97
      [] c = "b"  -> 98
      [] c = "c"  -> 99
      [] c = "i"  -> 105
      [] c = "n"  -> 110

\* std::string_view operator< : lexicographic on character codes
RECURSIVE LessStr(_, _)
LessStr(x, y) ==
    IF y = <<>> THEN FALSE
    ELSE IF x = <<>> THEN TRUE
    ELSE IF CharCode(Head(x)) # CharCode(Head(y))
         THEN CharCode(Head(x)) < CharCode(Head(y))
         ELSE LessStr(Tail(x), Tail(y))

\* ------------------------------------------------------------ map helpers
EmptyMap == <<>>

MapErase(m, k) == [x \in DOMAIN m \ {k} |-> m[x]]

MapPut(m, k, v) == [x \in DOMAIN m \cup {k} |-> IF x = k THEN v ELSE m[x]]

\* std::map::emplace: an existing key keeps its value
MapEmplace(m, k, v) == IF k \in DOMAIN m THEN m ELSE MapPut(m, k, v)

\* std::map<K, double>::operator[] read: a missing key is value-initialised
MapGet0(m, k) == IF k \in DOMAIN m THEN m[k] ELSE 0

\* the keys of a std::map<std::string_view, ...> in iteration order
RECURSIVE WordsInOrder(_)
WordsInOrder(S) ==
    IF S = {} THEN <<>>
    ELSE LET least == CHOOSE x \in S : \A y \in S \ {x} : LessStr(x, y)
         IN  <<least>> \o WordsInOrder(S \ {least})

\* the keys of a std::map<int, ...> / a std::set<int> in iteration order
RECURSIVE IdsInOrder(_)
IdsInOrder(S) ==
    IF S = {} THEN <<>>
    ELSE LET least == CHOOSE x \in S : \A y \in S : x <= y
         IN  <<least>> \o IdsInOrder(S \ {least})

Range(s) == {s[i] : i \in DOMAIN s}

\* ------------------------------------------------------- lexical analysis
\* SplitIntoWords: split on ' ', dropping empty words
RECURSIVE SplitFrom(_, _, _, _)
SplitFrom(text, i, word, words) ==
    IF i > Len(text)
    THEN IF word # <<>> THEN Append(words, word) ELSE words
    ELSE IF text[i] = " "
         THEN SplitFrom(text, i + 1, <<>>,
                        IF word # <<>> THEN Append(words, word) ELSE words)
         ELSE SplitFrom(text, i + 1, Append(word, text[i]), words)

SplitIntoWords(text) == SplitFrom(text, 1, <<>>, <<>>)

\* a test that takes no word for a stop word
IsStopWord_Never(word) == FALSE

\* the stop words the server is constructed with ("in")
stop_words_ == {<<"i", "n">>}

IsStopWord(word) == word \in stop_words_

\* a broken validity check that looks at the first character only
IsValidWord_FirstCharOnly(word) ==
    word = <<>> \/ ~(CharCode(word[1]) >= 0 /\ CharCode(word[1]) < 32)

\* IsValidWord: no character in ['\0', ' ')
IsValidWord(word) ==
    \A i \in DOMAIN word : ~(CharCode(word[i]) >= 0 /\ CharCode(word[i]) < 32)

\* SplitIntoWordsNoStop: throws std::invalid_argument at the first invalid
\* word; otherwise the non-stop words in text order
RECURSIVE NoStopFrom(_, _, _)
NoStopFrom(all, i, words) ==
    IF i > Len(all) THEN [error |-> FALSE, words |-> words]
    ELSE IF ~IsValidWord(all[i]) THEN [error |-> TRUE, words |-> <<>>]
    ELSE NoStopFrom(all, i + 1,
                    IF IsStopWord(all[i]) THEN words ELSE Append(words, all[i]))

SplitIntoWordsNoStop(text) == NoStopFrom(SplitIntoWords(text), 1, <<>>)

\* ---------------------------------------------------------------- ratings
\* a division that rounds toward minus infinity
TruncDiv_Floor(a, b) == a \div b

\* C++ int division truncates toward zero
TruncDiv(a, b) == IF a >= 0 THEN a \div b ELSE -((-a) \div b)

RECURSIVE SumSeq(_)
SumSeq(s) == IF s = <<>> THEN 0 ELSE Head(s) + SumSeq(Tail(s))

ComputeAverageRating(ratings) ==
    IF ratings = <<>> THEN 0 ELSE TruncDiv(SumSeq(ratings), Len(ratings))

\* ------------------------------------------------------------- the server
\* 1.0 as a term frequency: frequencies are counted in units of 1/TF_UNIT
TF_UNIT == 60

\* const double inv_word_count = 1.0 / words.size()  (unused when size is 0)
InvWordCount(n) == IF n = 0 THEN 0 ELSE TF_UNIT \div n

\* a SearchServer right after construction
EmptyServer ==
    [dictionary_             |-> <<>>,
     documents_              |-> EmptyMap,
     word_to_document_freqs_ |-> EmptyMap,
     document_to_word_freqs_ |-> EmptyMap,
     document_ids_           |-> {}]

\* a duplicate check that forgets the documents already stored
InvalidDocumentId_NegativeOnly(srv, document_id) == document_id < 0

\* the id check of AddDocument
InvalidDocumentId(srv, document_id) ==
    (document_id < 0) \/ (document_id \in DOMAIN srv.documents_)

\* an indexing loop that assigns inv_word_count where the code adds it
RECURSIVE IndexWords_Assign(_, _, _, _, _)
IndexWords_Assign(srv, document_id, words, inv_word_count, i) ==
    IF i > Len(words) THEN srv
    ELSE LET word    == words[i]
             posting == IF word \in DOMAIN srv.word_to_document_freqs_
                        THEN srv.word_to_document_freqs_[word] ELSE EmptyMap
             forward == IF document_id \in DOMAIN srv.document_to_word_freqs_
                        THEN srv.document_to_word_freqs_[document_id] ELSE EmptyMap
             next == [srv EXCEPT
                        !.dictionary_ = Append(@, word),
                        !.word_to_document_freqs_ =
                            MapPut(@, word, MapPut(posting, document_id, inv_word_count)),
                        !.document_to_word_freqs_ =
                            MapPut(@, document_id, MapPut(forward, word, inv_word_count))]
         IN  IndexWords_Assign(next, document_id, words, inv_word_count, i + 1)

\* the indexing loop of AddDocument over words[i..]
RECURSIVE IndexWords(_, _, _, _, _)
IndexWords(srv, document_id, words, inv_word_count, i) ==
    IF i > Len(words) THEN srv
    ELSE LET word    == words[i]
             posting == IF word \in DOMAIN srv.word_to_document_freqs_
                        THEN srv.word_to_document_freqs_[word] ELSE EmptyMap
             forward == IF document_id \in DOMAIN srv.document_to_word_freqs_
                        THEN srv.document_to_word_freqs_[document_id] ELSE EmptyMap
             next == [srv EXCEPT
                        !.dictionary_ = Append(@, word),
                        !.word_to_document_freqs_ =
                            MapPut(@, word, MapPut(posting, document_id,
                                     MapGet0(posting, document_id) + inv_word_count)),
                        !.document_to_word_freqs_ =
                            MapPut(@, document_id, MapPut(forward, word,
                                     MapGet0(forward, word) + inv_word_count))]
         IN  IndexWords(next, document_id, words, inv_word_count, i + 1)

\* AddDocument: the error raised ("none" on success) and the server afterwards
AddDocument(srv, document_id, document, status, ratings) ==
    IF InvalidDocumentId(srv, document_id)
    THEN [error |-> "invalid_argument", server |-> srv]
    ELSE LET split == SplitIntoWordsNoStop(document) IN
         IF split.error
         THEN [error |-> "invalid_argument", server |-> srv]
         ELSE LET indexed == IndexWords(srv, document_id, split.words,
                                        InvWordCount(Len(split.words)), 1)
              IN  [error  |-> "none",
                   server |-> [indexed EXCEPT
                       !.documents_ = MapEmplace(@, document_id,
                           [rating |-> ComputeAverageRating(ratings), status |-> status]),
                       !.document_ids_ = @ \cup {document_id}]]

GetDocumentCount(srv) == Cardinality(DOMAIN srv.documents_)

GetWordFrequencies(srv, document_id) ==
    IF document_id \in DOMAIN srv.document_to_word_freqs_
    THEN srv.document_to_word_freqs_[document_id]
    ELSE EmptyMap

\* word_to_document_freqs_.at(word).erase(document_id) for words[i..]; .at
\* throws std::out_of_range for a word the inverted index does not hold
RECURSIVE ErasePostings(_, _, _, _)
ErasePostings(srv, document_id, words, i) ==
    IF i > Len(words) THEN [error |-> "none", server |-> srv]
    ELSE IF words[i] \notin DOMAIN srv.word_to_document_freqs_
         THEN [error |-> "out_of_range", server |-> srv]
         ELSE ErasePostings(
                 [srv EXCEPT !.word_to_document_freqs_[words[i]] = MapErase(@, document_id)],
                 document_id, words, i + 1)

\* a removal whose first step erases the metadata entry only
RemoveDocument_KeepsLiveId(srv, document_id) ==
    LET erased == [srv EXCEPT !.documents_ = MapErase(@, document_id)]
    IN  IF document_id \notin DOMAIN erased.document_to_word_freqs_
        THEN [error |-> "out_of_range", server |-> erased]
        ELSE LET loop == ErasePostings(erased, document_id,
                             WordsInOrder(DOMAIN erased.document_to_word_freqs_[document_id]), 1)
             IN  IF loop.error # "none" THEN loop
                 ELSE [error  |-> "none",
                       server |-> [loop.server EXCEPT
                           !.document_to_word_freqs_ = MapErase(@, document_id)]]

\* RemoveDocument(int)
RemoveDocument(srv, document_id) ==
    LET erased == [srv EXCEPT !.documents_ = MapErase(@, document_id),
                              !.document_ids_ = @ \ {document_id}]
    IN  IF document_id \notin DOMAIN erased.document_to_word_freqs_
        THEN [error |-> "out_of_range", server |-> erased]
        ELSE LET loop == ErasePostings(erased, document_id,
                             WordsInOrder(DOMAIN erased.document_to_word_freqs_[document_id]), 1)
             IN  IF loop.error # "none" THEN loop
                 ELSE [error  |-> "none",
                       server |-> [loop.server EXCEPT
                           !.document_to_word_freqs_ = MapErase(@, document_id)]]


\* RemoveDocument(Type exec, int) with a sequential policy: both std::for_each
\* calls run in iteration order on the calling thread
RemoveDocumentPolicySeq(srv, document_id) ==
    IF document_id \notin DOMAIN srv.documents_
    THEN [error |-> "none", server |-> srv]
    ELSE IF document_id \notin DOMAIN srv.document_to_word_freqs_
    THEN [error |-> "out_of_range", server |-> srv]
    ELSE LET words_to_delete ==
                 WordsInOrder(DOMAIN srv.document_to_word_freqs_[document_id])
             loop == ErasePostings(srv, document_id, words_to_delete, 1)
         IN  IF loop.error # "none" THEN loop
             ELSE [error  |-> "none",
                   server |-> [loop.server EXCEPT
                       !.document_to_word_freqs_ = MapErase(@, document_id),
                       !.documents_ = MapErase(@, document_id),
                       !.document_ids_ = @ \ {document_id}]]

\* -------------------------------------------------------- RemoveDuplicates
\* the first loop of RemoveDuplicates over ids[i..]: documents maps each set
\* of words seen to the first id that had it; remove_id collects the others
RECURSIVE FindDuplicates(_, _, _, _, _)
FindDuplicates(srv, ids, i, documents, remove_id) ==
    IF i > Len(ids) THEN remove_id
    ELSE LET words == DOMAIN GetWordFrequencies(srv, ids[i]) IN
         IF words \notin DOMAIN documents
         THEN FindDuplicates(srv, ids, i + 1, MapPut(documents, words, ids[i]), remove_id)
         ELSE FindDuplicates(srv, ids, i + 1, documents, Append(remove_id, ids[i]))

\* the second loop: search_server.RemoveDocument(id) for remove_id[i..]; an
\* exception of RemoveDocument leaves the loop and RemoveDuplicates
RECURSIVE RemoveAll(_, _, _)
RemoveAll(srv, remove_id, i) ==
    IF i > Len(remove_id) THEN [error |-> "none", server |-> srv]
    ELSE LET res == RemoveDocument(srv, remove_id[i]) IN
         IF res.error # "none" THEN res
         ELSE RemoveAll(res.server, remove_id, i + 1)

\* RemoveDuplicates(search_server): the ids are iterated in the order of
\* document_ids_ (begin() .. end())
RemoveDuplicates(srv) ==
    RemoveAll(srv, FindDuplicates(srv, IdsInOrder(srv.document_ids_), 1, EmptyMap, <<>>), 1)

\* ---------------------------------------------------------------- results
\* what a call gives back: the exception thrown ("none" if none), and the
\* documents, or the words and the status, returned
NoOutcome == [error |-> "none", documents |-> <<>>, words |-> <<>>, status |-> "none"]

\* a call that returns nothing, or throws
Outcome(error) == [NoOutcome EXCEPT !.error = error]

\* ------------------------------------------------------------- the query
\* a ParseQueryWord that lets a second '-' through
ParseQueryWord_AllowsDoubleMinus(text) ==
    IF text = <<>> THEN [error |-> TRUE, data |-> <<>>, is_minus |-> FALSE, is_stop |-> FALSE]
    ELSE LET is_minus == (text[1] = "-")
             word     == IF is_minus THEN Tail(text) ELSE text
         IN  IF word = <<>> \/ ~IsValidWord(word)
             THEN [error |-> TRUE, data |-> <<>>, is_minus |-> FALSE, is_stop |-> FALSE]
             ELSE [error |-> FALSE, data |-> word, is_minus |-> is_minus,
                   is_stop |-> IsStopWord(word)]

\* ParseQueryWord: error is TRUE where the code throws std::invalid_argument
ParseQueryWord(text) ==
    IF text = <<>> THEN [error |-> TRUE, data |-> <<>>, is_minus |-> FALSE, is_stop |-> FALSE]
    ELSE LET is_minus == (text[1] = "-")
             word     == IF is_minus THEN Tail(text) ELSE text
         IN  IF word = <<>> \/ word[1] = "-" \/ ~IsValidWord(word)
             THEN [error |-> TRUE, data |-> <<>>, is_minus |-> FALSE, is_stop |-> FALSE]
             ELSE [error |-> FALSE, data |-> word, is_minus |-> is_minus,
                   is_stop |-> IsStopWord(word)]

\* std::sort of a vector of words (insertion of words[i..] into sorted)
RECURSIVE SortWords(_, _, _)
SortWords(words, i, sorted) ==
    IF i > Len(words) THEN sorted
    ELSE LET k == Cardinality({j \in DOMAIN sorted : ~LessStr(words[i], sorted[j])})
         IN  SortWords(words, i + 1,
                       SubSeq(sorted, 1, k) \o <<words[i]>> \o SubSeq(sorted, k + 1, Len(sorted)))

\* std::unique: of each run of equal neighbours the first is kept
RECURSIVE Unique(_)
Unique(words) ==
    IF Len(words) <= 1 THEN words
    ELSE IF words[1] = words[2] THEN Unique(Tail(words))
    ELSE <<words[1]>> \o Unique(Tail(words))

\* a DeleteCopy that leaves the vector as it is
DeleteCopy_Keep(result) == result

\* DeleteCopy: sort, unique, erase
DeleteCopy(result) == Unique(SortWords(result, 1, <<>>))

\* the loop of ParseQuery over words[i..]
RECURSIVE ParseQueryFrom(_, _, _)
ParseQueryFrom(words, i, result) ==
    IF i > Len(words) THEN result
    ELSE LET query_word == ParseQueryWord(words[i]) IN
         IF query_word.error THEN [result EXCEPT !.error = TRUE]
         ELSE ParseQueryFrom(words, i + 1,
                 IF query_word.is_stop THEN result
                 ELSE IF query_word.is_minus
                 THEN [result EXCEPT !.minus_words = Append(@, query_word.data)]
                 ELSE [result EXCEPT !.plus_words = Append(@, query_word.data)])

\* a ParseQuery that removes the copies under no policy
ParseQuery_NoDeleteCopy(text, exec) ==
    ParseQueryFrom(SplitIntoWords(text), 1,
        [error |-> FALSE, plus_words |-> <<>>, minus_words |-> <<>>])

\* ParseQuery(text, exec): only the sequential policy removes the copies here
ParseQuery(text, exec) ==
    LET result == ParseQueryFrom(SplitIntoWords(text), 1,
                      [error |-> FALSE, plus_words |-> <<>>, minus_words |-> <<>>])
    IN  IF result.error \/ exec # "seq" THEN result
        ELSE [result EXCEPT !.minus_words = DeleteCopy(@), !.plus_words = DeleteCopy(@)]

\* a FindTopDocuments that hands on what ParseQuery returned
QueryOfFindTopDocuments_NoDeleteCopy(raw_query, exec) == ParseQuery(raw_query, exec)

\* the query FindTopDocuments hands to FindAllDocuments: under the parallel
\* policy the copies are removed after ParseQuery
QueryOfFindTopDocuments(raw_query, exec) ==
    LET query == ParseQuery(raw_query, exec) IN
    IF query.error \/ exec # "par" THEN query
    ELSE [query EXCEPT !.minus_words = DeleteCopy(@), !.plus_words = DeleteCopy(@)]

\* ----------------------------------------------------------------- scoring
MAX_RESULT_DOCUMENT_COUNT == 5

\* 1e-6, in the unit of a relevance (1/TF_UNIT of 1e-6)
EPSILON == TF_UNIT

\* the value of a double that is infinite or not a number
NotFinite == 1000000000

\* ln(n) in units of 1e-6, from the logarithms of the primes
LnMicro(n) ==
    CASE n = 1 -> 0
      [] n = 2 -> 693147
      [] n = 3 -> 1098612
      [] n = 4 -> 2 * 693147
      [] n = 5 -> 1609438
      [] n = 6 -> 693147 + 1098612
      [] n = 7 -> 1945910
      [] n = 8 -> 3 * 693147
      [] n = 9 -> 2 * 1098612

\* log(GetDocumentCount() * 1.0 / word_to_document_freqs_.at(word).size())
ComputeWordInverseDocumentFreq(srv, word) ==
    IF Cardinality(DOMAIN srv.word_to_document_freqs_[word]) = 0 \/ GetDocumentCount(srv) = 0
    THEN NotFinite
    ELSE LnMicro(GetDocumentCount(srv))
           - LnMicro(Cardinality(DOMAIN srv.word_to_document_freqs_[word]))

\* the predicates handed to FindTopDocuments: status == ACTUAL (the default
\* overload), status == BANNED (the status overload), document_id % 2 == 0
DocumentPredicates == {"actual", "banned", "even_id"}

DocumentPredicate(predicate, document_id, status, rating) ==
    CASE predicate = "actual"  -> status = "ACTUAL"
      [] predicate = "banned"  -> status = "BANNED"
      [] predicate = "even_id" -> document_id % 2 = 0

\* an accumulation that overwrites instead of adding
Accumulate_Assign(value, term_freq, inverse_document_freq) ==
    term_freq * inverse_document_freq

\* ref_to_value += term_freq * inverse_document_freq
Accumulate(value, term_freq, inverse_document_freq) ==
    value + term_freq * inverse_document_freq

\* postings that are accumulated without asking the predicate
ScoredPostings_NoPredicate(srv, word, predicate) ==
    IF word \notin DOMAIN srv.word_to_document_freqs_ THEN <<>>
    ELSE IdsInOrder(DOMAIN srv.word_to_document_freqs_[word])

\* the postings of word that the element access function of the scoring
\* for_each accumulates, in iteration order: those passing the predicate
ScoredPostings(srv, word, predicate) ==
    IF word \notin DOMAIN srv.word_to_document_freqs_ THEN <<>>
    ELSE LET ids == IdsInOrder(DOMAIN srv.word_to_document_freqs_[word])
         IN  SelectSeq(ids, LAMBDA id :
                 DocumentPredicate(predicate, id, srv.documents_[id].status,
                                   srv.documents_[id].rating))

\* the plus words for which the scoring lambda calls
\* ComputeWordInverseDocumentFreq: those with word_to_document_freqs_.count(word) != 0
IdfComputedFor(srv, plus_words) ==
    { plus_words[i] : i \in { j \in DOMAIN plus_words :
                                plus_words[j] \in DOMAIN srv.word_to_document_freqs_ } }

\* whether a documents_.at(document_id) of the scoring loop throws
ScoringThrows(srv, plus_words) ==
    \E i \in DOMAIN plus_words :
       /\ plus_words[i] \in DOMAIN srv.word_to_document_freqs_
       /\ ~(DOMAIN srv.word_to_document_freqs_[plus_words[i]] \subseteq DOMAIN srv.documents_)

\* the body of the scoring lambda for one word, from posting k on
RECURSIVE ScoreWord(_, _, _, _, _)
ScoreWord(srv, word, ids, k, relevance) ==
    IF k > Len(ids) THEN relevance
    ELSE ScoreWord(srv, word, ids, k + 1,
             MapPut(relevance, ids[k],
                 Accumulate(MapGet0(relevance, ids[k]),
                            srv.word_to_document_freqs_[word][ids[k]],
                            ComputeWordInverseDocumentFreq(srv, word))))

\* std::for_each(std::execution::seq, plus_words...) from word i on
RECURSIVE ScoreWords(_, _, _, _, _)
ScoreWords(srv, plus_words, predicate, i, relevance) ==
    IF i > Len(plus_words) THEN relevance
    ELSE ScoreWords(srv, plus_words, predicate, i + 1,
             ScoreWord(srv, plus_words[i],
                       ScoredPostings(srv, plus_words[i], predicate), 1, relevance))

\* a minus-word loop that excludes nothing
ExcludeMinusWords_Nothing(srv, minus_words, result) == result

\* the minus-word loop of FindAllDocuments: result.erase(document_id) for
\* every posting of every minus word the index holds
ExcludeMinusWords(srv, minus_words, result) ==
    LET excluded == UNION { DOMAIN srv.word_to_document_freqs_[minus_words[i]] :
                            i \in {j \in DOMAIN minus_words :
                                     minus_words[j] \in DOMAIN srv.word_to_document_freqs_} }
    IN  [id \in DOMAIN result \ excluded |-> result[id]]

\* the std::transform of FindAllDocuments: one Document per entry, by id
MatchedDocuments(srv, result) ==
    LET ids == IdsInOrder(DOMAIN result)
    IN  [k \in 1 .. Len(ids) |->
            [id |-> ids[k], relevance |-> result[ids[k]],
             rating |-> srv.documents_[ids[k]].rating]]

\* FindAllDocuments under the sequential policy
FindAllDocuments(srv, query, predicate) ==
    MatchedDocuments(srv,
        ExcludeMinusWords(srv, query.minus_words,
            ScoreWords(srv, query.plus_words, predicate, 1, EmptyMap)))

Abs(x) == IF x < 0 THEN -x ELSE x

\* a comparison that puts the smaller relevance first
Comp_RelevanceAscending(lhs, rhs) ==
    IF Abs(lhs.relevance - rhs.relevance) < EPSILON
    THEN lhs.rating > rhs.rating
    ELSE lhs.relevance < rhs.relevance

\* the comparison FindTopDocuments sorts by
Comp(lhs, rhs) ==
    IF Abs(lhs.relevance - rhs.relevance) < EPSILON
    THEN lhs.rating > rhs.rating
    ELSE lhs.relevance > rhs.relevance

\* how a sort places elements neither of which compares before the other: in
\* their order in the input, or in the reverse of it
SortTies == {"stable", "reversed"}

\* std::sort by Comp: the positions of docs in sorted order
RECURSIVE SortPositions(_, _, _)
SortPositions(docs, left, ties) ==
    IF left = {} THEN <<>>
    ELSE LET Before(i, j) ==
                 \/ Comp(docs[i], docs[j])
                 \/ /\ ~Comp(docs[j], docs[i])
                    /\ IF ties = "stable" THEN i < j ELSE i > j
             first == CHOOSE i \in left : \A j \in left \ {i} : Before(i, j)
         IN  <<first>> \o SortPositions(docs, left \ {first}, ties)

Sort(docs, ties) ==
    LET order == SortPositions(docs, DOMAIN docs, ties)
    IN  [k \in DOMAIN docs |-> docs[order[k]]]

\* a truncation that never resizes
Truncate_NoResize(matched_documents) == matched_documents

\* if (size > MAX_RESULT_DOCUMENT_COUNT) resize(MAX_RESULT_DOCUMENT_COUNT)
Truncate(matched_documents) ==
    IF Len(matched_documents) > MAX_RESULT_DOCUMENT_COUNT
    THEN SubSeq(matched_documents, 1, MAX_RESULT_DOCUMENT_COUNT)
    ELSE matched_documents

\* FindTopDocuments(std::execution::seq, raw_query, predicate)
FindTopDocuments(srv, raw_query, predicate) ==
    LET query == QueryOfFindTopDocuments(raw_query, "seq") IN
    IF query.error THEN Outcome("invalid_argument")
    ELSE IF ScoringThrows(srv, query.plus_words) THEN Outcome("out_of_range")
    ELSE [NoOutcome EXCEPT
             !.documents = Truncate(Sort(FindAllDocuments(srv, query, predicate), "stable"))]

\* FindTopDocuments(raw_query): the sequential policy and DocumentStatus::ACTUAL
FindTopDocumentsActual(srv, raw_query) == FindTopDocuments(srv, raw_query, "actual")

\* a joining loop that takes the lists from the last to the first
RECURSIVE JoinDocuments_LastFirst(_, _)
JoinDocuments_LastFirst(lists, i) ==
    IF i > Len(lists) THEN <<>>
    ELSE JoinDocuments_LastFirst(lists, i + 1) \o lists[i]

\* the loops of ProcessQueriesJoined over lists[i..]: every document of
\* every list is pushed to the back of the std::list
RECURSIVE JoinDocuments(_, _)
JoinDocuments(lists, i) ==
    IF i > Len(lists) THEN <<>>
    ELSE lists[i] \o JoinDocuments(lists, i + 1)

\* a document check that knows negative ids only
NoDocument_NegativeOnly(srv, document_id) == document_id < 0

\* !document_ids_.count(document_id)
NoDocument(srv, document_id) == document_id \notin srv.document_ids_

\* word_to_document_freqs_.count(word) && word_to_document_freqs_.at(word).count(document_id)
WordInDocument(srv, word, document_id) ==
    /\ word \in DOMAIN srv.word_to_document_freqs_
    /\ document_id \in DOMAIN srv.word_to_document_freqs_[word]

\* return { matched_words, documents_.at(document_id).status }
Matched(srv, matched_words, document_id) ==
    IF document_id \notin DOMAIN srv.documents_ THEN Outcome("out_of_range")
    ELSE [NoOutcome EXCEPT !.words = matched_words,
                           !.status = srv.documents_[document_id].status]

\* MatchDocument(raw_query, document_id)
MatchDocument(srv, raw_query, document_id) ==
    IF NoDocument(srv, document_id) THEN Outcome("out_of_range")
    ELSE LET query == ParseQuery(raw_query, "seq") IN
         IF query.error THEN Outcome("invalid_argument")
         ELSE IF \E i \in DOMAIN query.minus_words :
                    WordInDocument(srv, query.minus_words[i], document_id)
              THEN Matched(srv, <<>>, document_id)
              ELSE Matched(srv,
                       SelectSeq(query.plus_words,
                                 LAMBDA word : WordInDocument(srv, word, document_id)),
                       document_id)

\* MatchDocument(std::execution::par, raw_query, document_id): the any_of over
\* the minus words, copy_if (which keeps the order of the plus words), erase
\* and DeleteCopy
MatchDocumentPar(srv, raw_query, document_id) ==
    IF NoDocument(srv, document_id) THEN Outcome("out_of_range")
    ELSE LET query == ParseQuery(raw_query, "par") IN
         IF query.error THEN Outcome("invalid_argument")
         ELSE IF \E i \in DOMAIN query.minus_words :
                    WordInDocument(srv, query.minus_words[i], document_id)
              THEN Matched(srv, <<>>, document_id)
              ELSE Matched(srv,
                       DeleteCopy(SelectSeq(query.plus_words,
                                      LAMBDA word : WordInDocument(srv, word, document_id))),
                       document_id)

\* ------------------------------------------------------------------ state
VARIABLES
    dictionary_,              \* std::deque<std::string>: the word storage
    documents_,               \* std::map<int, DocumentData>
    word_to_document_freqs_,  \* inverted index: word -> id -> tf
    document_to_word_freqs_,  \* forward index: id -> word -> tf
    document_ids_,            \* std::set<int>: the live ids
    pc,                       \* "idle", or the phase of the parallel call in progress
    call,                     \* the call in progress, or the last one made
    outcome,                  \* how the last completed call ended
    words_to_delete,          \* the local vector of RemoveDocument(exec, id)
    workers,                  \* the tasks of the running parallel algorithm
    document_to_relevance,    \* the ConcurrentMap of FindAllDocuments
    requests_,                \* RequestQueue: std::deque<QueryResult>
    count_,                   \* RequestQueue: int count_
    answers,                  \* history: of each AddFindRequest that returned, whether
                              \* its answer was empty
    result                    \* the std::vector<std::vector<Document>> of ProcessQueries

serverVars == <<dictionary_, documents_, word_to_document_freqs_,
                document_to_word_freqs_, document_ids_>>

localVars == <<words_to_delete, workers, document_to_relevance>>

queueVars == <<requests_, count_, answers>>

vars == <<dictionary_, documents_, word_to_document_freqs_, document_to_word_freqs_,
          document_ids_, pc, call, outcome, words_to_delete, workers,
          document_to_relevance, requests_, count_, answers, result>>

\* the server as one value
Server ==
    [dictionary_             |-> dictionary_,
     documents_              |-> documents_,
     word_to_document_freqs_ |-> word_to_document_freqs_,
     document_to_word_freqs_ |-> document_to_word_freqs_,
     document_ids_           |-> document_ids_]

SetServer(srv) ==
    /\ dictionary_' = srv.dictionary_
    /\ documents_' = srv.documents_
    /\ word_to_document_freqs_' = srv.word_to_document_freqs_
    /\ document_to_word_freqs_' = srv.document_to_word_freqs_
    /\ document_ids_' = srv.document_ids_

\* ----------------------------------------------------------------- inputs
DocumentStatus == {"ACTUAL", "IRRELEVANT", "BANNED", "REMOVED"}

DocumentIds == -1 .. MaxDocumentId

\* the documents offered to AddDocument: "a", "a  b", "a a", "in" (stop
\* words only) and "a b\t" (a control character ending the second word)
AddInputs ==
    { [text |-> <<"a">>, status |-> "ACTUAL", ratings |-> <<>>],
      [text |-> <<"a", " ", " ", "b">>, status |-> "BANNED", ratings |-> <<-1, 2, -4>>],
      [text |-> <<"a", " ", "a">>, status |-> "IRRELEVANT", ratings |-> <<5>>],
      [text |-> <<"i", "n">>, status |-> "ACTUAL", ratings |-> <<1, 2>>],
      [text |-> <<"a", " ", "b", "\t">>, status |-> "ACTUAL", ratings |-> <<>>] }

NoCall ==
    [op |-> "none", policy |-> "none", document_id |-> -1, text |-> <<>>,
     predicate |-> "none", queries |-> <<>>]

NoWordsToDelete == [slots |-> <<>>, finish |-> 0]

NoRelevance == [buckets |-> EmptyMap, held |-> EmptyMap]

\* a slot of words_to_delete that no push_back has written
Uninit == <<"?">>

Init ==
    /\ dictionary_ = EmptyServer.dictionary_
    /\ documents_ = EmptyServer.documents_
    /\ word_to_document_freqs_ = EmptyServer.word_to_document_freqs_
    /\ document_to_word_freqs_ = EmptyServer.document_to_word_freqs_
    /\ document_ids_ = EmptyServer.document_ids_
    /\ pc = "idle"
    /\ call = NoCall
    /\ outcome = NoOutcome
    /\ words_to_delete = NoWordsToDelete
    /\ workers = <<>>
    /\ document_to_relevance = NoRelevance
    /\ requests_ = <<>>
    /\ count_ = 0
    /\ answers = <<>>
    /\ result = <<>>

\* ---------------------------------------------------------------- actions
\* a call of AddDocument(document_id, document, status, ratings)
AddDocumentCall(document_id, document, status, ratings) ==
    /\ UNCHANGED <<queueVars, result>>
    /\ pc = "idle"
    /\ LET res == AddDocument(Server, document_id, document, status, ratings) IN
       /\ Len(res.server.dictionary_) <= MaxDictionary
       /\ SetServer(res.server)
       /\ outcome' = Outcome(res.error)
    /\ call' = [NoCall EXCEPT !.op = "AddDocument", !.document_id = document_id,
                              !.text = document]
    /\ UNCHANGED <<pc, localVars>>

\* a call of RemoveDocument(document_id)
RemoveDocumentCall(document_id) ==
    /\ UNCHANGED <<queueVars, result>>
    /\ pc = "idle"
    /\ LET res == RemoveDocument(Server, document_id) IN
       /\ SetServer(res.server)
       /\ outcome' = Outcome(res.error)
    /\ call' = [NoCall EXCEPT !.op = "RemoveDocument", !.document_id = document_id]
    /\ UNCHANGED <<pc, localVars>>

\* a call of RemoveDocument(std::execution::seq, document_id)
RemoveDocumentSeqCall(document_id) ==
    /\ UNCHANGED <<queueVars, result>>
    /\ pc = "idle"
    /\ LET res == RemoveDocumentPolicySeq(Server, document_id) IN
       /\ SetServer(res.server)
       /\ outcome' = Outcome(res.error)
    /\ call' = [NoCall EXCEPT !.op = "RemoveDocument", !.policy = "seq",
                              !.document_id = document_id]
    /\ UNCHANGED <<pc, localVars>>

\* ---- RemoveDocument(std::execution::par, document_id), step by step
\* a task of a running parallel algorithm: the element it handles and how far
\* it has got
Task(item, stage) == [item |-> item, stage |-> stage, reg |-> 0, pos |-> 0]

AllDone == \A w \in DOMAIN workers : workers[w].stage = "done"

\* the early return, the reserve, and the start of the first std::for_each:
\* one task per element of document_to_word_freqs_.at(document_id)
RemoveDocumentParBegin(document_id) ==
    /\ UNCHANGED <<queueVars, result>>
    /\ pc = "idle"
    /\ call' = [NoCall EXCEPT !.op = "RemoveDocument", !.policy = "par",
                              !.document_id = document_id]
    /\ UNCHANGED <<serverVars, document_to_relevance>>
    /\ IF document_id \notin DOMAIN documents_
       THEN /\ outcome' = Outcome("none")
            /\ UNCHANGED <<pc, words_to_delete, workers>>
       ELSE IF document_id \notin DOMAIN document_to_word_freqs_
       THEN /\ outcome' = Outcome("out_of_range")
            /\ UNCHANGED <<pc, words_to_delete, workers>>
       ELSE LET words == WordsInOrder(DOMAIN document_to_word_freqs_[document_id]) IN
            /\ pc' = "remove_collect"
            /\ words_to_delete' = [slots  |-> [i \in 1 .. Len(words) |-> Uninit],
                                   finish |-> 0]
            /\ workers' = [i \in 1 .. Len(words) |-> Task(words[i], "load")]
            /\ UNCHANGED outcome

\* the end of the vector after a push_back that found it at reg while the
\* vector's end is now at finish: the unsynchronised increment stores either
PushBackEnds(reg, finish) == {reg + 1, finish + 1}

\* words_to_delete.push_back(&elements.first), first half: read the end of
\* the vector (no lock is held)
CollectLoad(w) ==
    /\ UNCHANGED <<queueVars, result>>
    /\ pc = "remove_collect"
    /\ workers[w].stage = "load"
    /\ workers' = [workers EXCEPT ![w].stage = "store",
                                  ![w].reg = words_to_delete.finish]
    /\ UNCHANGED <<serverVars, pc, call, outcome, words_to_delete, document_to_relevance>>

\* push_back, second half: write the element at the end read before, and
\* store the incremented end
CollectStore(w) ==
    /\ UNCHANGED <<queueVars, result>>
    /\ pc = "remove_collect"
    /\ workers[w].stage = "store"
    /\ \E end \in PushBackEnds(workers[w].reg, words_to_delete.finish) :
          words_to_delete' =
              [slots  |-> [words_to_delete.slots EXCEPT ![workers[w].reg + 1] = workers[w].item],
               finish |-> end]
    /\ workers' = [workers EXCEPT ![w].stage = "done"]
    /\ UNCHANGED <<serverVars, pc, call, outcome, document_to_relevance>>

\* the first for_each has returned; the second starts one task per element
\* of words_to_delete
CollectJoin ==
    /\ UNCHANGED <<queueVars, result>>
    /\ pc = "remove_collect"
    /\ AllDone
    /\ pc' = "remove_erase"
    /\ workers' = [i \in 1 .. words_to_delete.finish |->
                      Task(words_to_delete.slots[i], "erase")]
    /\ UNCHANGED <<serverVars, call, outcome, words_to_delete, document_to_relevance>>

\* word_to_document_freqs_.at(*word).erase(document_id) by one task; an
\* element no push_back wrote is an indeterminate pointer: the task may hit
\* any word of the index, or bring the program down
EraseStep(w) ==
    /\ UNCHANGED <<queueVars, result>>
    /\ pc = "remove_erase"
    /\ workers[w].stage = "erase"
    /\ UNCHANGED <<dictionary_, documents_, document_to_word_freqs_, document_ids_,
                   call, words_to_delete, document_to_relevance>>
    /\ \/ \E word \in IF workers[w].item = Uninit
                      THEN DOMAIN word_to_document_freqs_
                      ELSE {workers[w].item} \cap DOMAIN word_to_document_freqs_ :
             /\ word_to_document_freqs_' =
                    [word_to_document_freqs_ EXCEPT ![word] = MapErase(@, call.document_id)]
             /\ workers' = [workers EXCEPT ![w].stage = "done"]
             /\ UNCHANGED <<pc, outcome>>
       \/ /\ workers[w].item = Uninit \/ workers[w].item \notin DOMAIN word_to_document_freqs_
          /\ pc' = "idle"
          /\ outcome' = Outcome("terminate")
          /\ workers' = <<>>
          /\ UNCHANGED word_to_document_freqs_

\* the second for_each has returned: the three trailing erases
RemoveDocumentParEnd ==
    /\ UNCHANGED <<queueVars, result>>
    /\ pc = "remove_erase"
    /\ AllDone
    /\ document_to_word_freqs_' = MapErase(document_to_word_freqs_, call.document_id)
    /\ documents_' = MapErase(documents_, call.document_id)
    /\ document_ids_' = document_ids_ \ {call.document_id}
    /\ pc' = "idle"
    /\ outcome' = Outcome("none")
    /\ workers' = <<>>
    /\ words_to_delete' = NoWordsToDelete
    /\ UNCHANGED <<dictionary_, word_to_document_freqs_, call, document_to_relevance>>

Next ==
    \/ \E id \in DocumentIds, doc \in AddInputs :
          AddDocumentCall(id, doc.text, doc.status, doc.ratings)
    \/ \E id \in DocumentIds : RemoveDocumentCall(id)
    \/ \E id \in DocumentIds : RemoveDocumentSeqCall(id)
    \/ \E id \in DocumentIds : RemoveDocumentParBegin(id)
    \/ \E w \in DOMAIN workers : CollectLoad(w)
    \/ \E w \in DOMAIN workers : CollectStore(w)
    \/ CollectJoin
    \/ \E w \in DOMAIN workers : EraseStep(w)
    \/ RemoveDocumentParEnd

Spec == Init /\ [][Next]_vars

\* ------------------------------------------------- the ConcurrentMap
\* ConcurrentMap<int, double> document_to_relevance(500)
BUCKET_COUNT == 500

\* the shard of a key
Bucket(key) == key % BUCKET_COUNT

EmptyConcurrentMap == [buckets |-> EmptyMap, held |-> EmptyMap]

\* whether the lock of the key's shard can be taken
ShardFree(cmap, key) == Bucket(key) \notin DOMAIN cmap.held

\* operator[]: take the shard's lock and make sure the key has a value
Access(cmap, key, holder) ==
    LET shard == IF Bucket(key) \in DOMAIN cmap.buckets
                 THEN cmap.buckets[Bucket(key)] ELSE EmptyMap
    IN  [buckets |-> MapPut(cmap.buckets, Bucket(key), MapEmplace(shard, key, 0)),
         held    |-> MapPut(cmap.held, Bucket(key), holder)]

\* the end of the Access object: write through ref_to_value, release the lock
Release(cmap, key, value) ==
    [buckets |-> [cmap.buckets EXCEPT ![Bucket(key)] = MapPut(@, key, value)],
     held    |-> MapErase(cmap.held, Bucket(key))]

\* BuildOrdinaryMap: every shard's entries in one std::map
BuildOrdinaryMap(cmap) ==
    LET keys == UNION {DOMAIN cmap.buckets[b] : b \in DOMAIN cmap.buckets}
    IN  [key \in keys |-> cmap.buckets[Bucket(key)][key]]

\* ---- FindTopDocuments(std::execution::par, raw_query, predicate), step by step
\* the postings the task w of the scoring for_each accumulates
TaskPostings(w) == ScoredPostings(Server, workers[w].item, call.predicate)

\* ParseQuery, DeleteCopy and the start of the scoring for_each: one task
\* per plus word
FindTopDocumentsParBegin(raw_query, predicate) ==
    /\ UNCHANGED <<queueVars, result>>
    /\ pc = "idle"
    /\ call' = [NoCall EXCEPT !.op = "FindTopDocuments", !.policy = "par",
                              !.text = raw_query, !.predicate = predicate]
    /\ UNCHANGED <<serverVars, words_to_delete>>
    /\ LET query == QueryOfFindTopDocuments(raw_query, "par") IN
       IF query.error \/ ScoringThrows(Server, query.plus_words)
       THEN /\ outcome' = Outcome(IF query.error THEN "invalid_argument" ELSE "terminate")
            /\ UNCHANGED <<pc, workers, document_to_relevance>>
       ELSE /\ pc' = "find_score"
            /\ workers' = [i \in DOMAIN query.plus_words |->
                  [Task(query.plus_words[i],
                        IF ScoredPostings(Server, query.plus_words[i], predicate) = <<>>
                        THEN "done" ELSE "lock")
                   EXCEPT !.pos = 1]]
            /\ document_to_relevance' = EmptyConcurrentMap
            /\ UNCHANGED outcome

\* document_to_relevance[document_id]: the task takes the shard's lock and
\* reads the value
ScoreLock(w) ==
    /\ UNCHANGED <<queueVars, result>>
    /\ pc = "find_score"
    /\ workers[w].stage = "lock"
    /\ LET document_id == TaskPostings(w)[workers[w].pos] IN
       /\ ShardFree(document_to_relevance, document_id)
       /\ document_to_relevance' = Access(document_to_relevance, document_id, w)
       /\ workers' = [workers EXCEPT
              ![w].stage = "add",
              ![w].reg = document_to_relevance'.buckets[Bucket(document_id)][document_id]]
    /\ UNCHANGED <<serverVars, pc, call, outcome, words_to_delete>>

\* .ref_to_value += term_freq * inverse_document_freq, and the end of the
\* full expression, which releases the lock
ScoreAdd(w) ==
    /\ UNCHANGED <<queueVars, result>>
    /\ pc = "find_score"
    /\ workers[w].stage = "add"
    /\ LET document_id == TaskPostings(w)[workers[w].pos] IN
       document_to_relevance' =
           Release(document_to_relevance, document_id,
               Accumulate(workers[w].reg,
                          word_to_document_freqs_[workers[w].item][document_id],
                          ComputeWordInverseDocumentFreq(Server, workers[w].item)))
    /\ workers' = [workers EXCEPT
           ![w].pos = @ + 1,
           ![w].stage = IF workers[w].pos + 1 > Len(TaskPostings(w)) THEN "done" ELSE "lock"]
    /\ UNCHANGED <<serverVars, pc, call, outcome, words_to_delete>>

\* the scoring for_each has returned: BuildOrdinaryMap, the minus words, the
\* transform, the parallel sort and the resize
FindTopDocumentsParEnd ==
    /\ UNCHANGED <<queueVars, result>>
    /\ pc = "find_score"
    /\ AllDone
    /\ LET query == QueryOfFindTopDocuments(call.text, "par")
           matched_documents ==
               MatchedDocuments(Server,
                   ExcludeMinusWords(Server, query.minus_words,
                       BuildOrdinaryMap(document_to_relevance)))
       IN  \E ties \in SortTies :
              outcome' = [NoOutcome EXCEPT
                             !.documents = Truncate(Sort(matched_documents, ties))]
    /\ pc' = "idle"
    /\ workers' = <<>>
    /\ document_to_relevance' = NoRelevance
    /\ UNCHANGED <<serverVars, call, words_to_delete>>

\* a call of FindTopDocuments(std::execution::seq, raw_query, predicate)
FindTopDocumentsSeqCall(raw_query, predicate) ==
    /\ UNCHANGED <<queueVars, result>>
    /\ pc = "idle"
    /\ call' = [NoCall EXCEPT !.op = "FindTopDocuments", !.policy = "seq",
                              !.text = raw_query, !.predicate = predicate]
    /\ outcome' = FindTopDocuments(Server, raw_query, predicate)
    /\ UNCHANGED <<serverVars, pc, localVars>>

\* a call of MatchDocument(raw_query, document_id)
MatchDocumentCall(raw_query, document_id) ==
    /\ UNCHANGED <<queueVars, result>>
    /\ pc = "idle"
    /\ call' = [NoCall EXCEPT !.op = "MatchDocument", !.policy = "seq",
                              !.text = raw_query, !.document_id = document_id]
    /\ outcome' = MatchDocument(Server, raw_query, document_id)
    /\ UNCHANGED <<serverVars, pc, localVars>>

\* a call of MatchDocument(std::execution::par, raw_query, document_id)
MatchDocumentParCall(raw_query, document_id) ==
    /\ UNCHANGED <<queueVars, result>>
    /\ pc = "idle"
    /\ call' = [NoCall EXCEPT !.op = "MatchDocument", !.policy = "par",
                              !.text = raw_query, !.document_id = document_id]
    /\ outcome' = MatchDocumentPar(Server, raw_query, document_id)
    /\ UNCHANGED <<serverVars, pc, localVars>>

\* ------------------------------------------------------------- SpecSearch
\* the documents the searched server is filled with
Corpus(document_id) ==
    CASE document_id = 0 ->
           [text |-> <<"a", " ", "b">>, status |-> "ACTUAL", ratings |-> <<7, 2, 7>>]
      [] document_id = 1 ->
           [text |-> <<"a", " ", "b">>, status |-> "ACTUAL", ratings |-> <<5>>]
      [] document_id = 2 ->
           [text |-> <<"a", " ", "c">>, status |-> "ACTUAL", ratings |-> <<8, -3>>]
      [] document_id = 3 ->
           [text |-> <<"a", " ", "i", "n", " ", "c", " ", "c">>, status |-> "ACTUAL",
            ratings |-> <<5, -12, 2, -1>>]
      [] document_id = 4 ->
           [text |-> <<"b">>, status |-> "BANNED", ratings |-> <<9>>]
      [] document_id = 5 ->
           [text |-> <<"a">>, status |-> "ACTUAL", ratings |-> <<>>]
      [] document_id = 6 ->
           [text |-> <<"a", " ", "b", " ", "c">>, status |-> "ACTUAL", ratings |-> <<-1, 2, -4>>]
      [] OTHER ->
           [text |-> <<"c", " ", "a">>, status |-> "IRRELEVANT", ratings |-> <<1, 2, 3>>]

\* the server after AddDocument of the corpus documents 0..last, in id order
RECURSIVE Filled(_)
Filled(last) ==
    IF last < 0 THEN EmptyServer
    ELSE AddDocument(Filled(last - 1), last, Corpus(last).text,
                     Corpus(last).status, Corpus(last).ratings).server

\* the queries: "a", "b a b", "a -c", "-in c", "in", and the invalid
\* "a --b", "- a", "b a\tc c"
SearchQueries ==
    { <<"a">>,
      <<"b", " ", "a", " ", "b">>,
      <<"a", " ", "-", "c">>,
      <<"-", "i", "n", " ", "c">>,
      <<"i", "n">>,
      <<"a", " ", "-", "-", "b">>,
      <<"-", " ", "a">>,
      <<"b", " ", "a", "\t", "c", " ", "c">> }

SearchDocumentIds == 0 .. MaxSearchDocumentId + 1

InitSearch ==
    /\ dictionary_ = Filled(MaxSearchDocumentId).dictionary_
    /\ documents_ = Filled(MaxSearchDocumentId).documents_
    /\ word_to_document_freqs_ = Filled(MaxSearchDocumentId).word_to_document_freqs_
    /\ document_to_word_freqs_ = Filled(MaxSearchDocumentId).document_to_word_freqs_
    /\ document_ids_ = Filled(MaxSearchDocumentId).document_ids_
    /\ pc = "idle"
    /\ call = NoCall
    /\ outcome = NoOutcome
    /\ words_to_delete = NoWordsToDelete
    /\ workers = <<>>
    /\ document_to_relevance = NoRelevance
    /\ requests_ = <<>>
    /\ count_ = 0
    /\ answers = <<>>
    /\ result = <<>>

NextSearch ==
    \/ \E q \in SearchQueries, p \in DocumentPredicates : FindTopDocumentsSeqCall(q, p)
    \/ \E q \in SearchQueries, p \in DocumentPredicates : FindTopDocumentsParBegin(q, p)
    \/ \E w \in DOMAIN workers : ScoreLock(w)
    \/ \E w \in DOMAIN workers : ScoreAdd(w)
    \/ FindTopDocumentsParEnd
    \/ \E q \in SearchQueries, id \in SearchDocumentIds : MatchDocumentCall(q, id)
    \/ \E q \in SearchQueries, id \in SearchDocumentIds : MatchDocumentParCall(q, id)
    \/ \E id \in 0 .. MaxRemoveId : RemoveDocumentCall(id)

SpecSearch == InitSearch /\ [][NextSearch]_vars

\* -------------------------------------------------------- the RequestQueue
\* const static int min_in_day_ = 1440
min_in_day_ == 1440

\* a test for a full queue that lets one request more in
QueueIsFull_Greater(requests) == Len(requests) > min_in_day_

\* requests_.size() >= min_in_day_
QueueIsFull(requests) == Len(requests) >= min_in_day_

\* RequestQueue::AddRequest(answer) on the members queue.requests_, queue.count_
AddRequest(queue, answer) ==
    LET full  == QueueIsFull(queue.requests_)
        count == IF full THEN (queue.count_ + 1) - 1 ELSE queue.count_ + 1
        kept  == IF full THEN Tail(queue.requests_) ELSE queue.requests_
    IN  [requests_ |-> Append(kept, [time |-> count, result |-> answer # <<>>]),
         count_    |-> count]

\* RequestQueue::GetNoResultRequests
GetNoResultRequests(requests) ==
    Cardinality({i \in DOMAIN requests : requests[i].result = FALSE})

\* the requests made: by predicate (the even-id lambda), by status (BANNED),
\* by default (ACTUAL), of queries with and without result, and of an invalid one
RequestInputs ==
    { [text |-> <<"a">>, predicate |-> "actual"],
      [text |-> <<"a">>, predicate |-> "banned"],
      [text |-> <<"a", " ", "-", "-", "b">>, predicate |-> "even_id"] }

\* a call of RequestQueue::AddFindRequest(raw_query, predicate): the search,
\* and AddRequest unless the search has thrown. A request differs from the one
\* before it after every SwitchEvery returned requests only.
AddFindRequestCall(raw_query, predicate) ==
    /\ pc = "idle"
    /\ Len(answers) < MaxRequests
    /\ IF Len(answers) % SwitchEvery = 0 THEN TRUE
       ELSE raw_query = call.text /\ predicate = call.predicate
    /\ call' = [NoCall EXCEPT !.op = "AddFindRequest", !.policy = "seq",
                              !.text = raw_query, !.predicate = predicate]
    /\ LET answer == FindTopDocuments(Server, raw_query, predicate)
           queue  == AddRequest([requests_ |-> requests_, count_ |-> count_],
                                answer.documents)
       IN  /\ outcome' = answer
           /\ IF answer.error # "none" THEN UNCHANGED queueVars
              ELSE /\ requests_' = queue.requests_
                   /\ count_' = queue.count_
                   /\ answers' = Append(answers, answer.documents = <<>>)
    /\ UNCHANGED <<serverVars, pc, localVars, result>>

\* the queue is constructed on the filled server
InitRequests == InitSearch

NextRequests ==
    \E input \in RequestInputs : AddFindRequestCall(input.text, input.predicate)

SpecRequests == InitRequests /\ [][NextRequests]_vars

\* ------------------------------------------------------- SpecDuplicates
\* a call of RemoveDuplicates(search_server)
RemoveDuplicatesCall ==
    /\ UNCHANGED <<queueVars, result>>
    /\ pc = "idle"
    /\ LET res == RemoveDuplicates(Server) IN
       /\ SetServer(res.server)
       /\ outcome' = Outcome(res.error)
    /\ call' = [NoCall EXCEPT !.op = "RemoveDuplicates"]
    /\ UNCHANGED <<pc, localVars>>

DuplicateIds == 0 .. MaxDuplicateId

\* the documents added before a sweep: "a", "a a" (the words of "a", twice),
\* "a  b" and "in" (stop words only)
DuplicateInputs ==
    { doc \in AddInputs : doc.text \in { <<"a">>, <<"a", " ", "a">>,
                                         <<"a", " ", " ", "b">>, <<"i", "n">> } }

NextDuplicates ==
    \/ \E id \in DuplicateIds, doc \in DuplicateInputs :
          AddDocumentCall(id, doc.text, doc.status, doc.ratings)
    \/ RemoveDuplicatesCall

SpecDuplicates == Init /\ [][NextDuplicates]_vars

\* ------------------------------------------------------------ SpecChurn
\* searches on a server whose documents come and go: "a", "b a b" and "in"
ChurnQueries ==
    { q \in SearchQueries : q \in { <<"a">>, <<"b", " ", "a", " ", "b">>, <<"i", "n">> } }

ChurnIds == 0 .. MaxDocumentId

NextChurn ==
    \/ \E id \in ChurnIds, doc \in DuplicateInputs :
          AddDocumentCall(id, doc.text, doc.status, doc.ratings)
    \/ \E id \in ChurnIds : RemoveDocumentCall(id)
    \/ \E q \in ChurnQueries, p \in DocumentPredicates : FindTopDocumentsSeqCall(q, p)

SpecChurn == Init /\ [][NextChurn]_vars

\* ----------------------------------------------------------- SpecProcess
\* ---- ProcessQueries / ProcessQueriesJoined, step by step
\* result(queries.size()) and the start of std::transform(std::execution::par):
\* one task per query
ProcessQueriesBegin(queries, op) ==
    /\ UNCHANGED queueVars
    /\ pc = "idle"
    /\ call' = [NoCall EXCEPT !.op = op, !.policy = "par", !.queries = queries]
    /\ pc' = "process"
    /\ result' = [i \in DOMAIN queries |-> <<>>]
    /\ workers' = [i \in DOMAIN queries |-> Task(queries[i], "find")]
    /\ UNCHANGED <<serverVars, outcome, words_to_delete, document_to_relevance>>

\* one task of the transform: the lambda's FindTopDocuments(querie), stored
\* in the task's own element of result; an exception that leaves the lambda
\* ends the program (std::terminate)
ProcessQueryStep(w) ==
    /\ UNCHANGED queueVars
    /\ pc = "process"
    /\ workers[w].stage = "find"
    /\ LET found == FindTopDocumentsActual(Server, workers[w].item) IN
       IF found.error # "none"
       THEN /\ pc' = "idle"
            /\ outcome' = Outcome("terminate")
            /\ workers' = <<>>
            /\ UNCHANGED result
       ELSE /\ result' = [result EXCEPT ![w] = found.documents]
            /\ workers' = [workers EXCEPT ![w].stage = "done"]
            /\ UNCHANGED <<pc, outcome>>
    /\ UNCHANGED <<serverVars, call, words_to_delete, document_to_relevance>>

\* the transform has returned: ProcessQueries returns result, and
\* ProcessQueriesJoined the documents of its lists in one list
ProcessQueriesEnd ==
    /\ UNCHANGED queueVars
    /\ pc = "process"
    /\ AllDone
    /\ pc' = "idle"
    /\ workers' = <<>>
    /\ outcome' = IF call.op = "ProcessQueriesJoined"
                  THEN [NoOutcome EXCEPT !.documents = JoinDocuments(result, 1)]
                  ELSE NoOutcome
    /\ UNCHANGED <<serverVars, call, result, words_to_delete, document_to_relevance>>

\* the lists of queries: {"a", "b a b"}, {"a -c", "in", "a"}, {"b a b", "a --b"}
\* (one query is invalid) and the empty list
QueryBatches ==
    { << <<"a">>, <<"b", " ", "a", " ", "b">> >>,
      << <<"a", " ", "-", "c">>, <<"i", "n">>, <<"a">> >>,
      << <<"b", " ", "a", " ", "b">>, <<"a", " ", "-", "-", "b">> >>,
      << >> }

InitProcess == InitSearch

NextProcess ==
    \/ \E queries \in QueryBatches, op \in {"ProcessQueries", "ProcessQueriesJoined"} :
          ProcessQueriesBegin(queries, op)
    \/ \E w \in DOMAIN workers : ProcessQueryStep(w)
    \/ ProcessQueriesEnd
    \/ \E id \in 0 .. MaxRemoveId : RemoveDocumentCall(id)

SpecProcess == InitProcess /\ [][NextProcess]_vars

\* ------------------------------------------------------------------ claims
\* the forward and the inverted index hold the same (document, word) pairs
\* with the same term frequencies
MirrorInvariant ==
    /\ \A d \in DOMAIN document_to_word_freqs_ :
          \A w \in DOMAIN document_to_word_freqs_[d] :
             /\ w \in DOMAIN word_to_document_freqs_
             /\ d \in DOMAIN word_to_document_freqs_[w]
             /\ word_to_document_freqs_[w][d] = document_to_word_freqs_[d][w]
    /\ \A w \in DOMAIN word_to_document_freqs_ :
          \A d \in DOMAIN word_to_document_freqs_[w] :
             /\ d \in DOMAIN document_to_word_freqs_
             /\ w \in DOMAIN document_to_word_freqs_[d]

\* C1: after any sequence of AddDocument and RemoveDocument calls (plain and
\* execution-policy variants) the forward index and the inverted index are
\* exact mirrors.
C1_MirrorAfterEveryCall == (pc = "idle") => MirrorInvariant

\* a step that is a call of RemoveDocument(document_id) returning at once
RemoveReturns(document_id) ==
    \/ RemoveDocumentCall(document_id)
    \/ RemoveDocumentSeqCall(document_id)
    \/ RemoveDocumentParBegin(document_id) /\ pc' = "idle"

\* C2: RemoveDocument(id) for an id that is not live raises no error and
\* leaves both indices, the metadata and the live-id set unchanged, in the
\* plain and in the execution-policy variant.
C2_RemoveAbsentIsSilentNoOp ==
    [][\A id \in DocumentIds :
          (RemoveReturns(id) /\ id \notin document_ids_)
             => (outcome'.error = "none" /\ UNCHANGED serverVars)]_vars

\* a step that ends a call of RemoveDocument(document_id), whichever variant
RemoveEnds(document_id) ==
    \/ RemoveReturns(document_id)
    \/ pc \in {"remove_collect", "remove_erase"} /\ pc' = "idle"
          /\ call.document_id = document_id

\* C3: after RemoveDocument(id) on a live id, GetWordFrequencies(id) is
\* empty, id is not among the live ids, GetDocumentCount has decreased by
\* one and no posting map of the inverted index contains id.
C3_RemoveRoundTrip ==
    [][\A id \in DocumentIds :
          (RemoveEnds(id) /\ id \in document_ids_)
             => /\ GetWordFrequencies(Server, id)' = EmptyMap
                /\ id \notin document_ids_'
                /\ GetDocumentCount(Server)' = GetDocumentCount(Server) - 1
                /\ \A w \in DOMAIN word_to_document_freqs_' :
                      id \notin DOMAIN word_to_document_freqs_'[w]]_vars

\* C4: when the parallel-policy RemoveDocument completes, every word of the
\* removed document has had its posting for the id erased, whatever the
\* interleaving of the collecting and of the erasing tasks.
C4_ParallelRemoveErasesEveryWord ==
    [][RemoveDocumentParEnd
          => \A w \in DOMAIN document_to_word_freqs_[call.document_id] :
                call.document_id \notin DOMAIN word_to_document_freqs_'[w]]_vars

\* the step is a call of AddDocument, from its entry to its return or throw
AddDocumentReturns == pc = "idle" /\ pc' = "idle" /\ call'.op = "AddDocument"

\* C6: AddDocument with a negative id, or with an id that is live, fails
\* with std::invalid_argument and changes nothing of the server: the
\* document stored under the id keeps its content, rating and status.
C6_AddWithBadIdFailsAndChangesNothing ==
    [][(AddDocumentReturns /\ (call'.document_id < 0 \/ call'.document_id \in document_ids_))
          => (outcome'.error = "invalid_argument" /\ UNCHANGED serverVars)]_vars

\* a second AddDocument on a live id has just failed, though its text is valid
C6_Witness ==
    /\ pc = "idle"
    /\ call.op = "AddDocument"
    /\ outcome.error = "invalid_argument"
    /\ call.document_id \in document_ids_
    /\ ~SplitIntoWordsNoStop(call.text).error
    /\ DOMAIN GetWordFrequencies(Server, call.document_id)
          # Range(SplitIntoWordsNoStop(call.text).words)

\* text has a token holding a character with a code below 0x20
HasControlToken(text) ==
    \E i \in DOMAIN SplitIntoWords(text) :
       \E j \in DOMAIN SplitIntoWords(text)[i] :
          CharCode(SplitIntoWords(text)[i][j]) < 32

\* the last call was an AddDocument of a text with a control character under
\* an id that was free
AfterInvalidDocument ==
    /\ pc = "idle"
    /\ call.op = "AddDocument"
    /\ HasControlToken(call.text)
    /\ call.document_id >= 0
    /\ call.document_id \notin document_ids_

\* C7: AddDocument of a text with a control character in any token, at any
\* place, fails and stores nothing; the id can be added afterwards.
C7_InvalidDocumentStoresNothing ==
    /\ [][(AddDocumentReturns /\ HasControlToken(call'.text))
             => (outcome'.error = "invalid_argument" /\ UNCHANGED serverVars)]_vars
    /\ [](AfterInvalidDocument
             => /\ outcome.error = "invalid_argument"
                /\ call.document_id \notin DOMAIN documents_
                /\ call.document_id \notin DOMAIN document_to_word_freqs_
                /\ \A doc \in AddInputs :
                      ~HasControlToken(doc.text)
                         => AddDocument(Server, call.document_id, doc.text,
                                        doc.status, doc.ratings).error = "none")

\* an AddDocument whose text has a control character after a valid word has
\* failed on a server that holds another document
C7_Witness ==
    /\ AfterInvalidDocument
    /\ outcome.error = "invalid_argument"
    /\ SplitIntoWords(call.text) # <<>>
    /\ ~HasControlToken(<<SplitIntoWords(call.text)[1]>>)
    /\ document_ids_ # {}

\* the plus words of a raw query, as a set: the words without '-' that are
\* no stop words
PlusWordsOf(raw_query) ==
    {w \in Range(SplitIntoWords(raw_query)) : w[1] # "-" /\ ~IsStopWord(w)}

\* the minus words of a raw query, as a set: the words after one '-' that are
\* no stop words
MinusWordsOf(raw_query) ==
    {SubSeq(w, 2, Len(w)) : w \in {x \in Range(SplitIntoWords(raw_query)) : x[1] = "-"}}
        \ stop_words_

\* a query ParseQuery accepts
ValidQuery(raw_query) == ~ParseQuery(raw_query, "seq").error

\* the words the document was indexed with
WordsOfDocument(document_id) ==
    IF document_id \in DOMAIN document_to_word_freqs_
    THEN DOMAIN document_to_word_freqs_[document_id] ELSE {}

\* the ids of a result, in order
Ids(documents) == [i \in DOMAIN documents |-> documents[i].id]

\* the plus words of the running call that contribute to the document
Contributors(document_id) ==
    {w \in PlusWordsOf(call.text) :
        /\ w \in WordsOfDocument(document_id)
        /\ DocumentPredicate(call.predicate, document_id,
                             documents_[document_id].status,
                             documents_[document_id].rating)}

\* the sum of term_freq * inverse_document_freq over a set of words
RECURSIVE SumOfContributions(_, _)
SumOfContributions(words, document_id) ==
    IF words = {} THEN 0
    ELSE LET w == CHOOSE x \in words : TRUE
         IN  document_to_word_freqs_[document_id][w]
                 * ComputeWordInverseDocumentFreq(Server, w)
             + SumOfContributions(words \ {w}, document_id)

\* the parallel scoring has finished and nothing is drained yet
ScoringFinished == pc = "find_score" /\ AllDone

\* C5: when the workers of the parallel scoring have all finished, in whatever
\* order they took the shards' locks, BuildOrdinaryMap gives every document
\* the sum of term_freq * inverse_document_freq over all plus words that
\* contribute to it, its keys are exactly the documents with a contribution,
\* and every key lies in one shard only.
C5_DrainedMapIsSumOfContributions ==
    ScoringFinished =>
        /\ DOMAIN BuildOrdinaryMap(document_to_relevance)
              = {id \in document_ids_ : Contributors(id) # {}}
        /\ \A id \in DOMAIN BuildOrdinaryMap(document_to_relevance) :
              BuildOrdinaryMap(document_to_relevance)[id]
                  = SumOfContributions(Contributors(id), id)
        /\ \A b \in DOMAIN document_to_relevance.buckets :
              \A key \in DOMAIN document_to_relevance.buckets[b] : Bucket(key) = b
        /\ document_to_relevance.held = EmptyMap

\* two workers have accumulated into the same document
C5_Witness ==
    /\ ScoringFinished
    /\ \E id \in document_ids_ : Cardinality(Contributors(id)) >= 2

\* a live document that contains a minus word of the query
HasMinusWord(document_id, raw_query) ==
    /\ document_id \in document_ids_
    /\ MinusWordsOf(raw_query) \cap WordsOfDocument(document_id) # {}

\* a FindTopDocuments call has returned a result
FindTopDocumentsReturned ==
    /\ pc = "idle"
    /\ call.op = "FindTopDocuments"
    /\ outcome.error = "none"

\* C8: a live document that contains a minus word of a valid query is in no
\* FindTopDocuments result, whatever the predicate and the policy, and
\* MatchDocument returns no words for it.
C8_MinusWordExcludesDocument ==
    /\ FindTopDocumentsReturned =>
          \A i \in DOMAIN outcome.documents :
              ~HasMinusWord(outcome.documents[i].id, call.text)
    /\ \A q \in SearchQueries, p \in DocumentPredicates :
          ValidQuery(q) =>
              \A d \in Range(FindTopDocuments(Server, q, p).documents) :
                  ~HasMinusWord(d.id, q)
    /\ \A q \in SearchQueries, id \in document_ids_ :
          (ValidQuery(q) /\ HasMinusWord(id, q)) =>
              /\ MatchDocument(Server, q, id).error = "none"
              /\ MatchDocument(Server, q, id).words = <<>>
    /\ (pc = "idle" /\ call.op = "MatchDocument" /\ outcome.error = "none"
            /\ HasMinusWord(call.document_id, call.text)) =>
          outcome.words = <<>>

\* a parallel search has returned documents and left out one that has a plus
\* word and a minus word of the query and satisfies the predicate
C8_Witness ==
    /\ FindTopDocumentsReturned
    /\ call.policy = "par"
    /\ outcome.documents # <<>>
    /\ \E id \in document_ids_ :
          /\ HasMinusWord(id, call.text)
          /\ Contributors(id) # {}

\* the documents that survive the scoring of the returned call
Survivors ==
    FindAllDocuments(Server, QueryOfFindTopDocuments(call.text, call.policy),
                     call.predicate)

\* the tie rules the sort of the call's policy can follow
TiesOf(policy) == IF policy = "seq" THEN {"stable"} ELSE SortTies

\* C9: a FindTopDocuments result has at most MAX_RESULT_DOCUMENT_COUNT = 5
\* documents, and it is the beginning of the sorted survivors: all of them when
\* there are at most 5, the first 5 otherwise.
C9_AtMostFiveAndFirstOfSorted ==
    FindTopDocumentsReturned =>
        /\ Len(outcome.documents) <= 5
        /\ Len(outcome.documents) = IF Len(Survivors) > 5 THEN 5 ELSE Len(Survivors)
        /\ \E ties \in TiesOf(call.policy) :
              \A i \in DOMAIN outcome.documents :
                  outcome.documents[i] = Sort(Survivors, ties)[i]

\* more than 5 documents survived and 5 were returned
C9_Witness ==
    /\ FindTopDocumentsReturned
    /\ Len(Survivors) > 5
    /\ Len(outcome.documents) = 5

\* C10: a FindTopDocuments call with the parallel policy returns the ids, in
\* the order, that the call with the sequential policy returns for the same
\* index, query and predicate.
C10_ParallelSameAsSequential ==
    (FindTopDocumentsReturned /\ call.policy = "par") =>
        Ids(outcome.documents)
            = Ids(FindTopDocuments(Server, call.text, call.predicate).documents)

\* the step is a call of MatchDocument, from its entry to its return or throw
MatchDocumentReturns == pc = "idle" /\ pc' = "idle" /\ call'.op = "MatchDocument"

\* the last call was a MatchDocument that threw std::out_of_range
MatchDocumentThrew ==
    /\ pc = "idle"
    /\ call.op = "MatchDocument"
    /\ outcome.error = "out_of_range"

\* C11: MatchDocument of an id that is not live, with the sequential or the
\* parallel policy and whatever the query, throws std::out_of_range and
\* leaves the server as it was; so it does for an id that was removed.
C11_MatchAbsentIsOutOfRange ==
    /\ [][(MatchDocumentReturns /\ call'.document_id \notin document_ids_)
             => (outcome'.error = "out_of_range" /\ UNCHANGED serverVars)]_vars
    /\ [](MatchDocumentThrew => call.document_id \notin document_ids_)

\* the parallel MatchDocument has just thrown for a removed id and a query
\* that is invalid
C11_Witness ==
    /\ pc = "idle"
    /\ call.op = "MatchDocument"
    /\ call.policy = "par"
    /\ call.document_id \in 0 .. MaxRemoveId
    /\ call.document_id \notin document_ids_
    /\ ~ValidQuery(call.text)
    /\ outcome.error = "out_of_range"

\* a MatchDocument call has returned a result
MatchDocumentReturned ==
    /\ pc = "idle"
    /\ call.op = "MatchDocument"
    /\ outcome.error = "none"

\* words are the plus words of the query that the document has, each once
IsMatchOf(words, raw_query, document_id) ==
    /\ Range(words) = PlusWordsOf(raw_query) \cap WordsOfDocument(document_id)
    /\ Len(words) = Cardinality(PlusWordsOf(raw_query) \cap WordsOfDocument(document_id))

\* C12: for a live document and a valid query none of whose minus words the
\* document has, MatchDocument returns the plus words of the query that are no
\* stop words and occur in the document, each once however often the query
\* repeats it, and the status the document was added with.
C12_MatchReturnsPlusWordsOfDocument ==
    /\ (MatchDocumentReturned /\ ~HasMinusWord(call.document_id, call.text)) =>
          /\ IsMatchOf(outcome.words, call.text, call.document_id)
          /\ outcome.status = Corpus(call.document_id).status
    /\ (pc = "idle" /\ call.op = "MatchDocument" /\ call.document_id \in document_ids_
            /\ ValidQuery(call.text)) =>
          outcome.error = "none"

\* MatchDocument has returned two words for a query that repeats one of them
C12_Witness ==
    /\ MatchDocumentReturned
    /\ call.policy = "seq"
    /\ Len(SplitIntoWords(call.text)) > Cardinality(Range(SplitIntoWords(call.text)))
    /\ Len(outcome.words) = 2

\* the server has just been filled, or a document has just been removed: every
\* content the index takes is met in such a state
IndexChanged == pc = "idle" /\ call.op \in {"none", "RemoveDocument"}

\* queries that repeat plus words and minus words: "b -c a b -c", "c c -b -b"
RepeatingQueries ==
    { <<"b", " ", "-", "c", " ", "a", " ", "b", " ", "-", "c">>,
      <<"c", " ", "c", " ", "-", "b", " ", "-", "b">> }

\* C13: for a live document and a valid query, also one that repeats words,
\* MatchDocument with the parallel policy returns the words, in the order, and
\* the status that the sequential MatchDocument returns.
C13_ParallelMatchSameAsSequential ==
    /\ IndexChanged =>
          \A q \in RepeatingQueries, id \in document_ids_ :
              /\ ValidQuery(q)
              /\ MatchDocumentPar(Server, q, id) = MatchDocument(Server, q, id)
    /\ (MatchDocumentReturned /\ call.policy = "par") =>
          /\ outcome.words = MatchDocument(Server, call.text, call.document_id).words
          /\ outcome.status = MatchDocument(Server, call.text, call.document_id).status

\* the parallel MatchDocument has returned two words for a query that repeats
\* one of them
C13_Witness ==
    /\ MatchDocumentReturned
    /\ call.policy = "par"
    /\ Len(SplitIntoWords(call.text)) > Cardinality(Range(SplitIntoWords(call.text)))
    /\ Len(outcome.words) = 2

\* the token is "-" alone, starts with "--", or holds a character with a code
\* below 0x20
BadToken(token) ==
    LET rest == IF token[1] = "-" THEN Tail(token) ELSE token
    IN  \/ rest = <<>>
        \/ rest[1] = "-"
        \/ \E j \in DOMAIN rest : CharCode(rest[j]) < 32

HasBadToken(raw_query) == \E token \in Range(SplitIntoWords(raw_query)) : BadToken(token)

\* the three kinds of bad token, each first, in the middle and last
InvalidQueries ==
    { before \o bad \o after :
        before \in {<<>>, <<"a", " ">>},
        bad \in {<<"-">>, <<"-", "-", "b">>, <<"c", "\t">>},
        after \in {<<>>, <<" ", "-", "b">>} }

\* C14: a query with a token that is "-" alone, that starts with "--" or that
\* holds a control character makes FindTopDocuments (either policy, every
\* predicate) and MatchDocument (either policy) of a live id throw
\* std::invalid_argument and return nothing, wherever the token stands.
C14_BadTokenIsInvalidArgument ==
    /\ (pc = "idle" /\ call.op = "FindTopDocuments" /\ HasBadToken(call.text)) =>
          outcome = Outcome("invalid_argument")
    /\ (pc = "idle" /\ call.op = "MatchDocument" /\ HasBadToken(call.text)
            /\ call.document_id \in document_ids_) =>
          outcome = Outcome("invalid_argument")
    /\ IndexChanged =>
          \A q \in InvalidQueries :
              /\ HasBadToken(q)
              /\ QueryOfFindTopDocuments(q, "par").error
              /\ \A p \in DocumentPredicates :
                    FindTopDocuments(Server, q, p) = Outcome("invalid_argument")
              /\ \A id \in document_ids_ :
                    /\ MatchDocument(Server, q, id) = Outcome("invalid_argument")
                    /\ MatchDocumentPar(Server, q, id) = Outcome("invalid_argument")

\* the parallel FindTopDocuments has thrown for a query whose last token is bad
C14_Witness ==
    /\ pc = "idle"
    /\ call.op = "FindTopDocuments"
    /\ call.policy = "par"
    /\ outcome.error = "invalid_argument"
    /\ ~BadToken(SplitIntoWords(call.text)[1])
    /\ BadToken(SplitIntoWords(call.text)[Len(SplitIntoWords(call.text))])

\* a may stand right before b: its relevance is greater by 1e-6 or more, or
\* the relevances are closer than 1e-6 and its rating is not smaller
InOrder(a, b) ==
    \/ a.relevance - b.relevance >= EPSILON
    \/ /\ a.relevance - b.relevance < EPSILON
       /\ b.relevance - a.relevance < EPSILON
       /\ a.rating >= b.rating

Satisfies(predicate, document_id) ==
    /\ document_id \in DOMAIN documents_
    /\ predicate = "actual"  => documents_[document_id].status = "ACTUAL"
    /\ predicate = "banned"  => documents_[document_id].status = "BANNED"
    /\ predicate = "even_id" => document_id % 2 = 0

\* C16: every document FindTopDocuments returns satisfies the predicate of the
\* call: the default overload returns documents with status ACTUAL only, the
\* status overload documents with the given status only, and a document that
\* has plus words of the query but fails the predicate is not returned.
C16_ResultSatisfiesPredicate ==
    FindTopDocumentsReturned =>
        \A i \in DOMAIN outcome.documents :
            Satisfies(call.predicate, outcome.documents[i].id)

\* a search by status has returned documents and left out a live one that has
\* a plus word of the query, no minus word, and another status
C16_Witness ==
    /\ FindTopDocumentsReturned
    /\ call.predicate = "banned"
    /\ outcome.documents # <<>>
    /\ \E id \in document_ids_ :
          /\ PlusWordsOf(call.text) \cap WordsOfDocument(id) # {}
          /\ ~HasMinusWord(id, call.text)
          /\ ~Satisfies(call.predicate, id)
          /\ id \notin Range(Ids(outcome.documents))

\* the tokens of a text that are no stop words
NonStopTokens(text) == SelectSeq(SplitIntoWords(text), LAMBDA w : w \notin stop_words_)

\* how often the word stands among the tokens
Occurrences(word, tokens) == Cardinality({i \in DOMAIN tokens : tokens[i] = word})

\* the sum of the values of a map
RECURSIVE SumOfValues(_)
SumOfValues(m) ==
    IF DOMAIN m = {} THEN 0
    ELSE LET k == CHOOSE x \in DOMAIN m : TRUE
         IN  m[k] + SumOfValues([x \in DOMAIN m \ {k} |-> m[x]])

\* freqs holds, for every token, its occurrences divided by the number of
\* tokens (1 is TF_UNIT)
IsTermFrequencyOf(freqs, tokens) ==
    /\ DOMAIN freqs = Range(tokens)
    /\ \A w \in DOMAIN freqs : freqs[w] * Len(tokens) = TF_UNIT * Occurrences(w, tokens)

\* the step is an AddDocument that stored the document
AddDocumentStores == AddDocumentReturns /\ outcome'.error = "none"

IsTruncatedAverage(rating, ratings) ==
    IF ratings = <<>> THEN rating = 0
    ELSE /\ Abs(rating) * Len(ratings) <= Abs(SumSeq(ratings))
         /\ Abs(SumSeq(ratings)) < (Abs(rating) + 1) * Len(ratings)
         /\ (rating > 0 => SumSeq(ratings) > 0)
         /\ (rating < 0 => SumSeq(ratings) < 0)

\* C18: the rating stored for a document, and the rating a search reports for
\* it, is the sum of the ratings given to AddDocument divided by their number
\* and cut toward zero, and 0 when no ratings were given.
C18_RatingIsTruncatedAverage ==
    /\ \A id \in document_ids_ :
          IsTruncatedAverage(documents_[id].rating, Corpus(id).ratings)
    /\ FindTopDocumentsReturned =>
          \A i \in DOMAIN outcome.documents :
              IsTruncatedAverage(outcome.documents[i].rating,
                                 Corpus(outcome.documents[i].id).ratings)

\* a search has returned a document whose ratings have a negative sum that
\* their number does not divide, and one that was given no ratings
C18_Witness ==
    /\ FindTopDocumentsReturned
    /\ \E i \in DOMAIN outcome.documents :
          /\ SumSeq(Corpus(outcome.documents[i].id).ratings) < 0
          /\ SumSeq(Corpus(outcome.documents[i].id).ratings)
                % Len(Corpus(outcome.documents[i].id).ratings) # 0
    /\ \E i \in DOMAIN outcome.documents :
          Corpus(outcome.documents[i].id).ratings = <<>>

\* the words put together again, with one space between two
RECURSIVE JoinWords(_)
JoinWords(words) ==
    IF words = <<>> THEN <<>>
    ELSE IF Len(words) = 1 THEN words[1]
    ELSE words[1] \o <<" ">> \o JoinWords(Tail(words))

\* the query without the tokens that are stop words or '-' and a stop word
WithoutStopTokens(raw_query) ==
    JoinWords(SelectSeq(SplitIntoWords(raw_query),
                        LAMBDA w : w \notin stop_words_
                                   /\ ~(w[1] = "-" /\ Tail(w) \in stop_words_)))

\* queries with the stop word: "in a", "a -in", "-in in"
StopWordQueries ==
    { <<"i", "n", " ", "a">>,
      <<"a", " ", "-", "i", "n">>,
      <<"-", "i", "n", " ", "i", "n">> }

\* C19: no stop word is a key of the index or of GetWordFrequencies, though
\* documents contain it; a query gives what the query without its stop words
\* gives, with or without '-' before them: no document is found through a stop
\* word, none is excluded through one, and MatchDocument reports none.
C19_StopWordsNeitherIndexedNorSearched ==
    /\ stop_words_ \cap DOMAIN word_to_document_freqs_ = {}
    /\ \A id \in document_ids_ : stop_words_ \cap DOMAIN GetWordFrequencies(Server, id) = {}
    /\ (FindTopDocumentsReturned /\ call.policy = "seq") =>
          outcome = FindTopDocuments(Server, WithoutStopTokens(call.text), call.predicate)
    /\ FindTopDocumentsReturned =>
          /\ \A i \in DOMAIN outcome.documents :
                PlusWordsOf(WithoutStopTokens(call.text))
                    \cap WordsOfDocument(outcome.documents[i].id) # {}
          /\ Len(outcome.documents) =
                Len(FindTopDocuments(Server, WithoutStopTokens(call.text),
                                     call.predicate).documents)
    /\ (FindTopDocumentsReturned /\ Range(SplitIntoWords(call.text)) \subseteq stop_words_) =>
          outcome.documents = <<>>
    /\ MatchDocumentReturned =>
          /\ stop_words_ \cap Range(outcome.words) = {}
          /\ outcome = MatchDocument(Server, WithoutStopTokens(call.text), call.document_id)
    /\ IndexChanged =>
          \A q \in StopWordQueries, p \in DocumentPredicates :
              FindTopDocuments(Server, q, p) = FindTopDocuments(Server, WithoutStopTokens(q), p)

\* a document has the stop word in its text
HasStopToken(document_id) ==
    stop_words_ \cap Range(SplitIntoWords(Corpus(document_id).text)) # {}

\* a search whose query has '-' and the stop word has returned a document that
\* has the stop word in its text
C19_Witness ==
    /\ FindTopDocumentsReturned
    /\ \E w \in stop_words_ : (<<"-">> \o w) \in Range(SplitIntoWords(call.text))
    /\ \E i \in DOMAIN outcome.documents : HasStopToken(outcome.documents[i].id)

\* the number of the most recent requests the queue has room for
Window == IF Len(answers) < 1440 THEN Len(answers) ELSE 1440

\* C20: after n AddFindRequest calls that returned, requests_ holds min(n, 1440)
\* entries, never more than 1440, one for each of the most recent calls in the
\* order of the calls, and GetNoResultRequests is the number of those calls
\* whose answer was empty.
C20_WindowOfRequests ==
    /\ Len(requests_) = Window
    /\ Len(requests_) <= 1440
    /\ \A i \in 1 .. Window :
          requests_[i].result = ~answers[Len(answers) - Window + i]
    /\ GetNoResultRequests(requests_) =
          Cardinality({i \in (Len(answers) - Window + 1) .. Len(answers) : answers[i]})

\* more than 1440 requests were made, some with an empty answer are forgotten
\* and the window holds answers of both kinds
C20_Witness ==
    /\ Len(answers) > 1440
    /\ answers[1]
    /\ GetNoResultRequests(requests_) > 0
    /\ GetNoResultRequests(requests_) < Len(requests_)
    /\ GetNoResultRequests(requests_) < Cardinality({i \in DOMAIN answers : answers[i]})

\* ---- C27
\* C27: in every state the calls of AddDocument and RemoveDocument leave
\* behind, returned or thrown, and in every state in between the steps of the
\* parallel removal, the live-id set document_ids_ is the key set of the
\* metadata map documents_; so the number of live ids is GetDocumentCount.
C27_LiveIdsAreMetadataKeys ==
    /\ document_ids_ = DOMAIN documents_
    /\ Cardinality(document_ids_) = GetDocumentCount(Server)

\* a plain RemoveDocument has thrown std::out_of_range, after its two erases,
\* while another document is live
C27_Witness ==
    /\ pc = "idle"
    /\ call.op = "RemoveDocument"
    /\ call.policy = "none"
    /\ outcome.error = "out_of_range"
    /\ call.document_id \notin document_ids_
    /\ document_ids_ # {}

\* ---- C26
\* the ids the two indices name: those of the posting maps and the keys of
\* the forward index
IndexedIds ==
    UNION { DOMAIN word_to_document_freqs_[word] : word \in DOMAIN word_to_document_freqs_ }
        \cup DOMAIN document_to_word_freqs_

\* C26: in every reachable state every document id that appears in a posting
\* map of the inverted index or as a key of the forward index is a key of
\* documents_, so no documents_.at(document_id) of the scoring loop throws for
\* any plus word.
C26_IndexedIdsAreMetadataKeys ==
    /\ IndexedIds \subseteq DOMAIN documents_
    /\ \A word \in DOMAIN word_to_document_freqs_ : ~ScoringThrows(Server, <<word>>)

\* ---- C23
\* a live document without postings: AddDocument stored it with no word that
\* is not a stop word, so the forward index has no entry for it
LiveWithoutPostings(document_id) ==
    /\ document_id \in document_ids_
    /\ document_id \in DOMAIN documents_
    /\ document_id \notin DOMAIN document_to_word_freqs_

\* C23: a RemoveDocument call, plain or with an execution policy, on a live
\* document that has no postings raises no error and leaves the id in neither
\* documents_ nor document_ids_.
C23_RemoveWithoutPostingsSucceeds ==
    [][ ( /\ pc = "idle"
          /\ pc' = "idle"
          /\ call'.op = "RemoveDocument"
          /\ LiveWithoutPostings(call'.document_id) )
        => /\ outcome'.error = "none"
           /\ call'.document_id \notin DOMAIN documents_'
           /\ call'.document_id \notin document_ids_' ]_vars

\* ---- C21
\* the set of distinct indexed words of a document
WordSet(srv, document_id) == DOMAIN GetWordFrequencies(srv, document_id)

\* the live documents whose word set is that of a live document with a
\* smaller id
Duplicates(srv) ==
    { id \in srv.document_ids_ :
        \E first \in srv.document_ids_ :
           first < id /\ WordSet(srv, first) = WordSet(srv, id) }

\* everything the server stores about a document
ContentOf(srv, document_id) ==
    [data  |-> IF document_id \in DOMAIN srv.documents_
               THEN srv.documents_[document_id] ELSE "none",
     words |-> GetWordFrequencies(srv, document_id),
     postings |-> { word \in DOMAIN srv.word_to_document_freqs_ :
                      document_id \in DOMAIN srv.word_to_document_freqs_[word] }]

RemoveDuplicatesReturns == pc = "idle" /\ pc' = "idle" /\ call'.op = "RemoveDuplicates"

\* C21: a RemoveDuplicates call removes exactly the live documents whose word
\* set equals that of a live document with a smaller id; afterwards no two live
\* documents have the same word set, every document that was no duplicate is
\* live with the content it had, and a second call would remove nothing.
C21_RemoveDuplicatesSweeps ==
    [][ RemoveDuplicatesReturns
        => /\ document_ids_' = document_ids_ \ Duplicates(Server)
           /\ Duplicates(Server') = {}
           /\ \A id \in document_ids_ \ Duplicates(Server) :
                 ContentOf(Server', id) = ContentOf(Server, id)
           /\ RemoveDuplicates(Server').server.document_ids_ = document_ids_' ]_vars

\* ---- C24
\* C24: whenever a search has returned, every plus word of its query for
\* which ComputeWordInverseDocumentFreq was called has a posting map that is
\* not empty, so the divisor of the IDF is not 0 and the IDF is finite.
C24_IdfOnlyForWordsWithPostings ==
    ( /\ pc = "idle"
      /\ call.op = "FindTopDocuments"
      /\ outcome.error = "none" )
    => \A word \in IdfComputedFor(Server,
                        QueryOfFindTopDocuments(call.text, call.policy).plus_words) :
          /\ DOMAIN word_to_document_freqs_[word] # {}
          /\ ComputeWordInverseDocumentFreq(Server, word) # NotFinite

\* ---- C25
\* no element of the sequence occurs twice
NoRepeats(words) == \A i, j \in DOMAIN words : words[i] = words[j] => i = j

\* the tokens that repeat no earlier token, in order
RECURSIVE FirstOccurrences(_, _)
FirstOccurrences(words, i) ==
    IF i > Len(words) THEN <<>>
    ELSE IF \E j \in 1 .. i - 1 : words[j] = words[i]
         THEN FirstOccurrences(words, i + 1)
         ELSE <<words[i]>> \o FirstOccurrences(words, i + 1)

\* the query with the repetitions of its tokens removed
WithoutRepetitions(raw_query) == JoinWords(FirstOccurrences(SplitIntoWords(raw_query), 1))

\* the query of the last call repeats a plus word
RepeatsPlusWord ==
    \E i, j \in DOMAIN SplitIntoWords(call.text) :
       /\ i < j
       /\ SplitIntoWords(call.text)[i] = SplitIntoWords(call.text)[j]
       /\ SplitIntoWords(call.text)[i] \in PlusWordsOf(call.text)

\* C25: under both policies the plus words and the minus words that are
\* scored hold no word twice; the relevance of every document a search returns
\* is the sum of tf * IDF over the distinct plus words it contains, and is the
\* relevance the document gets for the query with the repetitions removed.
C25_RepeatedWordsCountOnce ==
    /\ IndexChanged =>
          \A q \in RepeatingQueries \cup {x \in SearchQueries : ValidQuery(x)} :
             \A exec \in {"seq", "par"} :
                /\ NoRepeats(QueryOfFindTopDocuments(q, exec).plus_words)
                /\ NoRepeats(QueryOfFindTopDocuments(q, exec).minus_words)
                /\ Range(QueryOfFindTopDocuments(q, exec).plus_words) = PlusWordsOf(q)
                /\ Range(QueryOfFindTopDocuments(q, exec).minus_words) = MinusWordsOf(q)
    /\ FindTopDocumentsReturned =>
          \A k \in DOMAIN outcome.documents :
             /\ outcome.documents[k].relevance
                   = SumOfContributions(Contributors(outcome.documents[k].id),
                                        outcome.documents[k].id)
             /\ \E e \in Range(FindAllDocuments(Server,
                                  QueryOfFindTopDocuments(WithoutRepetitions(call.text),
                                                          call.policy),
                                  call.predicate)) :
                   e = outcome.documents[k]

\* a parallel search whose query repeats a plus word has returned a document
\* that contains the repeated word and another plus word
C25_Witness ==
    /\ FindTopDocumentsReturned
    /\ call.policy = "par"
    /\ RepeatsPlusWord
    /\ \E k \in DOMAIN outcome.documents :
          /\ Cardinality(Contributors(outcome.documents[k].id)) >= 2
          /\ outcome.documents[k].relevance > 0

\* ---- C22
\* what FindTopDocuments(queries[i]) returns on the index as it is
FoundFor(i) == FindTopDocumentsActual(Server, call.queries[i]).documents

\* the number of documents found for the queries before the i-th
RECURSIVE FoundBefore(_)
FoundBefore(i) == IF i <= 1 THEN 0 ELSE FoundBefore(i - 1) + Len(FoundFor(i - 1))

\* a ProcessQueries or ProcessQueriesJoined call has returned
ProcessQueriesReturned ==
    /\ pc = "idle"
    /\ call.op \in {"ProcessQueries", "ProcessQueriesJoined"}
    /\ outcome.error = "none"

\* C22: while the workers of ProcessQueries run, in whatever order, the entry
\* of every finished worker is what FindTopDocuments returns for its query;
\* when the call has returned, result has one entry per query and entry i is
\* FindTopDocuments(queries[i]); what ProcessQueriesJoined returns is these
\* entries one after the other in query order, each in its ranked order.
C22_ProcessQueriesKeepsQueryOrder ==
    /\ pc = "process" =>
          /\ Len(result) = Len(call.queries)
          /\ \A w \in DOMAIN workers :
                workers[w].stage = "done" => result[w] = FoundFor(w)
    /\ ProcessQueriesReturned =>
          /\ Len(result) = Len(call.queries)
          /\ \A i \in DOMAIN call.queries : result[i] = FoundFor(i)
          /\ call.op = "ProcessQueriesJoined" =>
                /\ Len(outcome.documents) = FoundBefore(Len(call.queries) + 1)
                /\ \A i \in DOMAIN call.queries :
                      \A k \in DOMAIN FoundFor(i) :
                         outcome.documents[FoundBefore(i) + k] = FoundFor(i)[k]

\* ProcessQueriesJoined has returned the documents of three queries, one of
\* which found nothing and two of which found different lists
C22_Witness ==
    /\ ProcessQueriesReturned
    /\ call.op = "ProcessQueriesJoined"
    /\ Len(call.queries) = 3
    /\ FoundFor(2) = <<>>
    /\ Len(FoundFor(1)) >= 2
    /\ FoundFor(1) # FoundFor(3)
    /\ Len(outcome.documents) > Len(FoundFor(1))

====
